---- MODULE Spec2Model ----
(***************************************************************************)
(* Customer / address REST API over SQLite (server of the repository).     *)
(* Text values are sequences of one-character strings, so that trimming,   *)
(* splitting, case mapping, LIKE matching and BINARY collation are         *)
(* computed character by character as the libraries compute them.          *)
(* A request or query body is a function from the keys that are present    *)
(* to their values; an absent key is JavaScript's undefined.               *)
(***************************************************************************)
EXTENDS Integers, Sequences, FiniteSets, TLC

(***************************************************************************)
(* Bounds of the model.                                                    *)
(***************************************************************************)
\* largest customer id / address id the AUTOINCREMENT counters may hand out
MaxCustomers == 2
MaxAddresses == 2

(***************************************************************************)
(* Text helpers.                                                           *)
(***************************************************************************)
Ascii ==
  << " ", "!", "\"", "#", "$", "%", "&", "'", "(", ")", "*", "+", ",", "-", ".", "/",
     "0", "1", "2", "3", "4", "5", "6", "7", "8", "9", ":", ";", "<", "=", ">", "?",
     "@", "A", "B", "C", "D", "E", "F", "G", "H", "I", "J", "K", "L", "M", "N", "O",
     "P", "Q", "R", "S", "T", "U", "V", "W", "X", "Y", "Z", "[", "\\", "]", "^", "_",
     "(grave)", "a", "b", "c", "d", "e", "f", "g", "h", "i", "j", "k", "l", "m", "n", "o",
     "p", "q", "r", "s", "t", "u", "v", "w", "x", "y", "z", "{", "|", "}", "~" >>

IndexOf(ch, seq) ==
  IF \E i \in 1..Len(seq) : seq[i] = ch
  THEN CHOOSE i \in 1..Len(seq) : seq[i] = ch
  ELSE 0

\* byte value of a character (printable ASCII starts at 32)
Code(ch) == 31 + IndexOf(ch, Ascii)

IsLower(ch) == Code(ch) >= 97 /\ Code(ch) <= 122
IsDigit(ch) == Code(ch) >= 48 /\ Code(ch) <= 57
IsSpace(ch) == ch = " "

ToUpperChar(ch) == IF IsLower(ch) THEN Ascii[Code(ch) - 32 - 31] ELSE ch

\* String.prototype.toUpperCase
ToUpperCase(s) == [i \in 1..Len(s) |-> ToUpperChar(s[i])]

RECURSIVE LTrim(_)
LTrim(s) == IF s # <<>> /\ IsSpace(Head(s)) THEN LTrim(Tail(s)) ELSE s

RECURSIVE RTrim(_)
RTrim(s) ==
  IF s # <<>> /\ IsSpace(s[Len(s)]) THEN RTrim(SubSeq(s, 1, Len(s) - 1)) ELSE s

\* the trim() sanitizer of express-validator
Trim(s) == RTrim(LTrim(s))

\* JavaScript truthiness of a string value
Truthy(s) == s # <<>>

Has(b, k) == k \in DOMAIN b

\* b.k or the empty string
OrEmpty(b, k) == IF Has(b, k) /\ Truthy(b[k]) THEN b[k] ELSE <<>>

\* memcmp order of two texts (SQLite BINARY collation)
RECURSIVE TextLess(_, _)
TextLess(a, b) ==
  IF b = <<>> THEN FALSE
  ELSE IF a = <<>> THEN TRUE
  ELSE IF Code(Head(a)) # Code(Head(b)) THEN Code(Head(a)) < Code(Head(b))
  ELSE TextLess(Tail(a), Tail(b))

\* String.prototype.split(sep) for a one-character separator
RECURSIVE SplitFrom(_, _, _)
SplitFrom(s, sep, cur) ==
  IF s = <<>> THEN << cur >>
  ELSE IF Head(s) = sep THEN << cur >> \o SplitFrom(Tail(s), sep, <<>>)
  ELSE SplitFrom(Tail(s), sep, Append(cur, Head(s)))

Split(s, sep) == SplitFrom(s, sep, <<>>)

\* SQLite LIKE: % any run, _ any one character, ASCII letters fold case
RECURSIVE Like(_, _)
Like(txt, pat) ==
  IF pat = <<>> THEN txt = <<>>
  ELSE IF Head(pat) = "%"
       THEN Like(txt, Tail(pat)) \/ (txt # <<>> /\ Like(Tail(txt), pat))
  ELSE /\ txt # <<>>
       /\ (Head(pat) = "_" \/ ToUpperChar(Head(pat)) = ToUpperChar(Head(txt)))
       /\ Like(Tail(txt), Tail(pat))

(***************************************************************************)
(* State: the two tables, their AUTOINCREMENT counters, and the request    *)
(* being served with the response it was given.                            *)
(***************************************************************************)
VARIABLES customers, addresses, custSeq, addrSeq, req, resp, fault, pending

store == << customers, addresses, custSeq, addrSeq >>
vars == << customers, addresses, custSeq, addrSeq, req, resp, fault, pending >>

\* fault: the store call of the request being served that the driver reports
\* as failed (db.run / db.get calling back with err); NoFault when none does
NoFault == "none"

\* an error of the store that is not a constraint violation (SQLITE_BUSY,
\* SQLITE_FULL, SQLITE_IOERR, ...)
StoreFailure == "SQLITE_ERROR"

\* the connection never runs PRAGMA foreign_keys = ON; SQLite then parses
\* FOREIGN KEY clauses and does not enforce them
ForeignKeysEnabled == FALSE

NoMeta == [page |-> 0, limit |-> 0, total |-> 0]

\* the page query a list request sent to the store, kept with its response
NoSql == [where |-> <<>>, orderBy |-> <<>>, dir |-> <<>>]

Reply(status, message, data) ==
  [status |-> status, message |-> message, data |-> data, errors |-> {},
   addresses |-> {}, meta |-> NoMeta, sql |-> NoSql]

Invalid(errors) == [Reply(400, "", <<>>) EXCEPT !.errors = errors]

Request(op, id, body) == [op |-> op, id |-> id, body |-> body]

Init ==
  /\ customers = {}
  /\ addresses = {}
  /\ custSeq = 0
  /\ addrSeq = 0
  /\ req = Request("none", 0, << >>)
  /\ resp = Reply(0, "", <<>>)
  /\ fault = NoFault
  /\ pending = << >>

(***************************************************************************)
(* SQL statements.                                                         *)
(***************************************************************************)
\* SELECT * FROM customers WHERE id = ?
SelectCustomer(id) == {c \in customers : c.id = id}

\* mutant: the existence check of the address routes without its WHERE
SelectAddress_Unfiltered(id) == addresses

\* SELECT * FROM addresses WHERE id = ?
SelectAddress(id) == {a \in addresses : a.id = id}

\* SELECT * FROM addresses WHERE customer_id = ?
SelectAddressesOf(id) == {a \in addresses : a.customer_id = id}

\* mutant: the phone_number column without its UNIQUE constraint
UniqueViolation_Unconstrained(rows) == FALSE

\* phone_number TEXT NOT NULL UNIQUE
UniqueViolation(rows) ==
  \E c, d \in rows : c.id # d.id /\ c.phone_number = d.phone_number

\* FOREIGN KEY(customer_id) REFERENCES customers(id)
ForeignKeyViolation(custRows, addrRows) ==
  /\ ForeignKeysEnabled
  /\ \E a \in addrRows : \A c \in custRows : c.id # a.customer_id

\* INSERT INTO customers (first_name, last_name, phone_number) VALUES (?,?,?)
InsertCustomerSql(first, last, phone) ==
  LET row == [id |-> custSeq + 1, first_name |-> first, last_name |-> last,
              phone_number |-> phone]
      rows == customers \cup {row}
  IN IF UniqueViolation(rows)
     THEN [err |-> "UNIQUE constraint failed", id |-> 0, rows |-> customers]
     ELSE [err |-> "", id |-> row.id, rows |-> rows]

\* INSERT INTO addresses (customer_id, address_details, city, state, pin_code)
InsertAddressSql(custRows, customerId, details, city, state, pin) ==
  LET row == [id |-> addrSeq + 1, customer_id |-> customerId,
              address_details |-> details, city |-> city, state |-> state,
              pin_code |-> pin]
      rows == addresses \cup {row}
  IN IF ForeignKeyViolation(custRows, rows)
     THEN [err |-> "FOREIGN KEY constraint failed", id |-> 0, rows |-> addresses]
     ELSE [err |-> "", id |-> row.id, rows |-> rows]

\* UPDATE <table> SET k = ? , ... WHERE id = ?  on one row
SetFields(row, updates) ==
  [k \in DOMAIN row |-> IF k \in DOMAIN updates THEN updates[k] ELSE row[k]]

\* UPDATE customers SET ... WHERE id = ?
UpdateCustomerSql(updates, id) ==
  LET rows == {IF c.id = id THEN SetFields(c, updates) ELSE c : c \in customers}
  IN IF UniqueViolation(rows)
     THEN [err |-> "UNIQUE constraint failed", rows |-> customers]
     ELSE [err |-> "", rows |-> rows]

\* mutant: the UPDATE of the address route without its WHERE
UpdateAddressSql_EveryRow(updates, id) ==
  {SetFields(a, updates) : a \in addresses}

\* UPDATE addresses SET ... WHERE id = ?
UpdateAddressSql(updates, id) ==
  {IF a.id = id THEN SetFields(a, updates) ELSE a : a \in addresses}

\* DELETE FROM customers WHERE id = ?   (ON DELETE CASCADE acts only when
\* foreign keys are enforced)
DeleteCustomerSql(id) ==
  [customers |-> {c \in customers : c.id # id},
   addresses |-> IF ForeignKeysEnabled
                 THEN {a \in addresses : a.customer_id # id}
                 ELSE addresses]

\* DELETE FROM addresses WHERE id = ?
DeleteAddressSql(id) == {a \in addresses : a.id # id}

\* mutant: a catch block that reports every error as a phone conflict
CatchUnique_EveryErrorConflict(err) ==
  Reply(409, "Phone number already exists", <<>>)

\* the catch blocks of the customer routes
CatchUnique(err) ==
  IF err = "UNIQUE constraint failed"
  THEN Reply(409, "Phone number already exists", <<>>)
  ELSE Reply(500, "Internal server error", <<>>)

\* the catch blocks of the other routes
CatchAny(err) == Reply(500, "Internal server error", <<>>)

\* the row a getAsync returned, as the data of a response (undefined: none)
RowData(rows) == IF rows = {} THEN <<>> ELSE << CHOOSE r \in rows : TRUE >>

(***************************************************************************)
(* Validation chains (express-validator): a sanitizer rewrites the field   *)
(* in req.body, the validators after it see the rewritten value.           *)
(***************************************************************************)
\* isLength({ min: 6, max: 20 }) of the phone_number chains
PhoneMin == 6
PhoneMax == 20

\* the value a chain reads for a field: an absent one reads as empty text
Val(body, k) == IF Has(body, k) THEN body[k] ELSE <<>>

\* .trim().notEmpty()
NotEmptyFails(body, k) == ~Truthy(Trim(Val(body, k)))

\* .isLength({ min: 6, max: 20 }) after .trim()
IsLengthFails(body, k) ==
  Len(Trim(Val(body, k))) < PhoneMin \/ Len(Trim(Val(body, k))) > PhoneMax

CustomerFields == {"first_name", "last_name", "phone_number"}
AddressFields == {"address_details", "city", "state", "pin_code"}

\* mutant: chains that validate without rewriting req.body
Sanitize_NotWrittenBack(body, fields) == body

\* req.body once the chains of a route have run: every field a chain names
\* and finds present is trimmed, the others are left as sent
Sanitize(body, fields) ==
  [k \in DOMAIN body |-> IF k \in fields THEN Trim(body[k]) ELSE body[k]]

\* chains of POST /api/customers
ValidateCreateCustomer(body) ==
  {k \in {"first_name", "last_name"} : NotEmptyFails(body, k)}
    \cup {k \in {"phone_number"} :
            NotEmptyFails(body, k) \/ IsLengthFails(body, k)}

\* mutant: the PUT chains without optional()
ValidateUpdateCustomer_NotOptional(body) == ValidateCreateCustomer(body)

\* chains of PUT /api/customers/:id (optional(): an absent field is skipped)
ValidateUpdateCustomer(body) ==
  {k \in {"first_name", "last_name"} : Has(body, k) /\ NotEmptyFails(body, k)}
    \cup {k \in {"phone_number"} : Has(body, k) /\ IsLengthFails(body, k)}

\* chains of POST /api/customers/:id/addresses
ValidateCreateAddress(body) == {k \in AddressFields : NotEmptyFails(body, k)}

\* chains of PUT /api/addresses/:addressId
ValidateUpdateAddress(body) ==
  {k \in AddressFields : Has(body, k) /\ NotEmptyFails(body, k)}

\* the updates / params pair the PUT routes build: the fields that are
\* present and truthy, each with its value
UpdatesOf(body, fields) ==
  [k \in {f \in fields : Has(body, f) /\ Truthy(body[f])} |-> body[k]]

(***************************************************************************)
(* Route handlers.  Each action is one request served to its response.     *)
(***************************************************************************)
\* POST /api/customers, with the store call named by failing (if any)
\* rejected by the driver.  Each runAsync is its own transaction: what an
\* earlier call wrote stays when a later one fails.
PostCustomers(body, failing) ==
  LET errors == ValidateCreateCustomer(body)
      b == Sanitize(body, CustomerFields)
      result == IF failing = "insertCustomer"
                THEN [err |-> StoreFailure, id |-> 0, rows |-> customers]
                ELSE InsertCustomerSql(b.first_name, b.last_name, b.phone_number)
      customerId == result.id
      address == Val(body, "address")
      withAddress == Has(body, "address") /\ Has(address, "address_details")
                       /\ Truthy(address.address_details)
      added == IF failing = "insertAddress"
               THEN [err |-> StoreFailure, id |-> 0, rows |-> addresses]
               ELSE InsertAddressSql(result.rows, customerId, address.address_details,
                                     OrEmpty(address, "city"), OrEmpty(address, "state"),
                                     OrEmpty(address, "pin_code"))
      created == {c \in result.rows : c.id = customerId}
      answer == IF failing = "selectCreated"
                THEN CatchUnique(StoreFailure)
                ELSE Reply(201, "Customer created", RowData(created))
  IN /\ req' = Request("POST /api/customers", 0, body)
     /\ IF errors # {}
        THEN resp' = Invalid(errors) /\ UNCHANGED store
        ELSE IF result.err # ""
        THEN resp' = CatchUnique(result.err) /\ UNCHANGED store
        ELSE /\ customers' = result.rows
             /\ custSeq' = customerId
             /\ IF withAddress
                THEN IF added.err # ""
                     THEN resp' = CatchUnique(added.err) /\ UNCHANGED << addresses, addrSeq >>
                     ELSE /\ addresses' = added.rows
                          /\ addrSeq' = added.id
                          /\ resp' = answer
                ELSE /\ UNCHANGED << addresses, addrSeq >>
                     /\ resp' = answer

\* POST /api/customers with every store call answered
CreateCustomer(body) == PostCustomers(body, NoFault)

\* GET /api/customers/:id
GetCustomerReply(id) ==
  LET customer == SelectCustomer(id)
  IN IF customer = {}
     THEN Reply(404, "Customer not found", <<>>)
     ELSE [Reply(200, "", RowData(customer)) EXCEPT !.addresses = SelectAddressesOf(id)]

GetCustomer(id) ==
  /\ req' = Request("GET /api/customers/:id", id, << >>)
  /\ resp' = GetCustomerReply(id)
  /\ UNCHANGED store

\* PUT /api/customers/:id
UpdateCustomer(id, body) ==
  LET errors == ValidateUpdateCustomer(body)
      b == Sanitize(body, CustomerFields)
      existing == SelectCustomer(id)
      updates == UpdatesOf(b, CustomerFields)
      result == UpdateCustomerSql(updates, id)
      updated == {c \in result.rows : c.id = id}
  IN /\ req' = Request("PUT /api/customers/:id", id, body)
     /\ IF errors # {}
        THEN resp' = Invalid(errors) /\ UNCHANGED store
        ELSE IF existing = {}
        THEN resp' = Reply(404, "Customer not found", <<>>) /\ UNCHANGED store
        ELSE IF DOMAIN updates = {}
        THEN resp' = Reply(400, "No fields to update", <<>>) /\ UNCHANGED store
        ELSE IF result.err # ""
        THEN resp' = CatchUnique(result.err) /\ UNCHANGED store
        ELSE /\ customers' = result.rows
             /\ resp' = Reply(200, "Customer updated", RowData(updated))
             /\ UNCHANGED << addresses, custSeq, addrSeq >>

\* DELETE /api/customers/:id
DeleteCustomer(id) ==
  LET existing == SelectCustomer(id)
      result == DeleteCustomerSql(id)
  IN /\ req' = Request("DELETE /api/customers/:id", id, << >>)
     /\ IF existing = {}
        THEN resp' = Reply(404, "Customer not found", <<>>) /\ UNCHANGED store
        ELSE /\ customers' = result.customers
             /\ addresses' = result.addresses
             /\ resp' = Reply(200, "Customer deleted", <<>>)
             /\ UNCHANGED << custSeq, addrSeq >>

\* POST /api/customers/:id/addresses
AddAddress(id, body) ==
  LET errors == ValidateCreateAddress(body)
      b == Sanitize(body, AddressFields)
      existing == SelectCustomer(id)
      result == InsertAddressSql(customers, id, b.address_details, b.city,
                                 b.state, b.pin_code)
      created == {a \in result.rows : a.id = result.id}
  IN /\ req' = Request("POST /api/customers/:id/addresses", id, body)
     /\ IF errors # {}
        THEN resp' = Invalid(errors) /\ UNCHANGED store
        ELSE IF existing = {}
        THEN resp' = Reply(404, "Customer not found", <<>>) /\ UNCHANGED store
        ELSE IF result.err # ""
        THEN resp' = CatchAny(result.err) /\ UNCHANGED store
        ELSE /\ addresses' = result.rows
             /\ addrSeq' = result.id
             /\ resp' = Reply(201, "Address added", RowData(created))
             /\ UNCHANGED << customers, custSeq >>

\* GET /api/customers/:id/addresses
GetAddresses(id) ==
  LET existing == SelectCustomer(id)
  IN /\ req' = Request("GET /api/customers/:id/addresses", id, << >>)
     /\ resp' = IF existing = {}
                THEN Reply(404, "Customer not found", <<>>)
                ELSE [Reply(200, "", <<>>) EXCEPT !.addresses = SelectAddressesOf(id)]
     /\ UNCHANGED store

\* PUT /api/addresses/:addressId
UpdateAddress(addressId, body) ==
  LET errors == ValidateUpdateAddress(body)
      b == Sanitize(body, AddressFields)
      existing == SelectAddress(addressId)
      updates == UpdatesOf(b, AddressFields)
      rows == UpdateAddressSql(updates, addressId)
      updated == {a \in rows : a.id = addressId}
  IN /\ req' = Request("PUT /api/addresses/:addressId", addressId, body)
     /\ IF errors # {}
        THEN resp' = Invalid(errors) /\ UNCHANGED store
        ELSE IF existing = {}
        THEN resp' = Reply(404, "Address not found", <<>>) /\ UNCHANGED store
        ELSE IF DOMAIN updates = {}
        THEN resp' = Reply(400, "No fields to update", <<>>) /\ UNCHANGED store
        ELSE /\ addresses' = rows
             /\ resp' = Reply(200, "Address updated", RowData(updated))
             /\ UNCHANGED << customers, custSeq, addrSeq >>

\* DELETE /api/addresses/:addressId
DeleteAddress(addressId) ==
  LET existing == SelectAddress(addressId)
  IN /\ req' = Request("DELETE /api/addresses/:addressId", addressId, << >>)
     /\ IF existing = {}
        THEN resp' = Reply(404, "Address not found", <<>>) /\ UNCHANGED store
        ELSE /\ addresses' = DeleteAddressSql(addressId)
             /\ resp' = Reply(200, "Address deleted", <<>>)
             /\ UNCHANGED << customers, custSeq, addrSeq >>

(***************************************************************************)
(* GET /api/customers: filters, sort, pagination.                          *)
(***************************************************************************)
\* page and limit when the parameter is absent, not a number, or zero
DefaultPage == 1
DefaultLimit == 10

NaN == [nan |-> TRUE, n |-> 0]

RECURSIVE ParseDigits(_, _)
ParseDigits(s, acc) ==
  IF s # <<>> /\ IsDigit(Head(s))
  THEN ParseDigits(Tail(s), acc * 10 + (Code(Head(s)) - 48))
  ELSE acc

\* JavaScript parseInt of a decimal text: leading blanks, a sign, then the
\* digits up to the first other character; NaN when there is no digit
ParseInt(s) ==
  LET t == LTrim(s)
      signed == t # <<>> /\ Head(t) \in {"-", "+"}
      u == IF signed THEN Tail(t) ELSE t
  IN IF u = <<>> \/ ~IsDigit(Head(u)) THEN NaN
     ELSE [nan |-> FALSE,
           n |-> IF Head(t) = "-" THEN 0 - ParseDigits(u, 0) ELSE ParseDigits(u, 0)]

\* parseInt(req.query.k) || d
ParseIntOr(query, k, d) ==
  LET v == IF Has(query, k) THEN ParseInt(query[k]) ELSE NaN
  IN IF v.nan \/ v.n = 0 THEN d ELSE v.n

F_id == << "i", "d" >>
F_first_name == << "f", "i", "r", "s", "t", "_", "n", "a", "m", "e" >>
F_last_name == << "l", "a", "s", "t", "_", "n", "a", "m", "e" >>
F_phone_number == << "p", "h", "o", "n", "e", "_", "n", "u", "m", "b", "e", "r" >>
ASC == << "A", "S", "C" >>
DESC == << "D", "E", "S", "C" >>

\* req.query.sort when the parameter is absent or empty: 'id:asc'
DefaultSort == << "i", "d", ":", "a", "s", "c" >>

allowedFields == {F_first_name, F_last_name, F_id, F_phone_number}

\* the column an ORDER BY identifier names
Column(field) ==
  CASE field = F_first_name -> "first_name"
    [] field = F_last_name -> "last_name"
    [] field = F_phone_number -> "phone_number"
    [] OTHER -> "id"

\* mutant: the fallback names another column than id
SortOf_FallsBackToFirstName(sort) ==
  LET parts == Split(sort, ":")
      sortDir == IF Len(parts) >= 2 THEN parts[2] ELSE <<>>
  IN [field |-> IF parts[1] \in allowedFields THEN parts[1] ELSE F_first_name,
      dir |-> IF Truthy(sortDir) /\ ToUpperCase(sortDir) = DESC THEN DESC ELSE ASC]

\* mutant: the field goes into the query text without the allow-list check
SortOf_Unchecked(sort) ==
  LET parts == Split(sort, ":")
      sortDir == IF Len(parts) >= 2 THEN parts[2] ELSE <<>>
  IN [field |-> parts[1],
      dir |-> IF Truthy(sortDir) /\ ToUpperCase(sortDir) = DESC THEN DESC ELSE ASC]

\* let [sortField, sortDir] = sort.split(':') and the two checks after it
SortOf(sort) ==
  LET parts == Split(sort, ":")
      sortField == parts[1]
      sortDir == IF Len(parts) >= 2 THEN parts[2] ELSE <<>>
  IN [field |-> IF sortField \in allowedFields THEN sortField ELSE F_id,
      dir |-> IF Truthy(sortDir) /\ ToUpperCase(sortDir) = DESC THEN DESC ELSE ASC]

\* whereParts and params, in the order the handler pushes them
WherePartsOf(search, city, state, pin_code) ==
  (IF Truthy(search) THEN << "search" >> ELSE <<>>)
    \o (IF Truthy(city) THEN << "city" >> ELSE <<>>)
    \o (IF Truthy(state) THEN << "state" >> ELSE <<>>)
    \o (IF Truthy(pin_code) THEN << "pin_code" >> ELSE <<>>)

ParamsOf(search, city, state, pin_code) ==
  (IF Truthy(search)
   THEN << << "%" >> \o search \o << "%" >>, << "%" >> \o search \o << "%" >> >>
   ELSE <<>>)
    \o (IF Truthy(city) THEN << city >> ELSE <<>>)
    \o (IF Truthy(state) THEN << state >> ELSE <<>>)
    \o (IF Truthy(pin_code) THEN << pin_code >> ELSE <<>>)

\* mutant: the location filters joined on one address row
RECURSIVE LocationPairs(_, _)
LocationPairs(whereParts, params) ==
  IF whereParts = <<>> THEN {}
  ELSE IF Head(whereParts) = "search"
  THEN LocationPairs(Tail(whereParts), Tail(Tail(params)))
  ELSE {<< Head(whereParts), params[1] >>}
         \cup LocationPairs(Tail(whereParts), Tail(params))

WhereHolds_SameRow(whereParts, params, c, addrRows) ==
  /\ (whereParts # <<>> /\ Head(whereParts) = "search")
       => \/ Like(c.first_name \o << " " >> \o c.last_name, params[1])
          \/ Like(c.phone_number, params[2])
  /\ LocationPairs(whereParts, params) # {}
       => \E a \in addrRows :
            /\ a.customer_id = c.id
            /\ \A pair \in LocationPairs(whereParts, params) : a[pair[1]] = pair[2]

\* the WHERE clause on one customers row: the parts joined by AND, each
\* taking its bound parameters from the front of params
RECURSIVE WhereHolds(_, _, _, _)
WhereHolds(whereParts, params, c, addrRows) ==
  IF whereParts = <<>> THEN TRUE
  ELSE IF Head(whereParts) = "search"
  THEN /\ \/ Like(c.first_name \o << " " >> \o c.last_name, params[1])
          \/ Like(c.phone_number, params[2])
       /\ WhereHolds(Tail(whereParts), Tail(Tail(params)), c, addrRows)
  ELSE /\ c.id \in {a.customer_id : a \in {x \in addrRows :
                                             x[Head(whereParts)] = params[1]}}
       /\ WhereHolds(Tail(whereParts), Tail(params), c, addrRows)

\* SELECT COUNT(*) as count FROM customers <whereSql>
CountSql(whereParts, params) ==
  Cardinality({c \in customers : WhereHolds(whereParts, params, c, addresses)})

\* ORDER BY <field> <dir> on two rows: TRUE when a must not come after b
KeyLess(column, a, b) ==
  IF column = "id" THEN a.id < b.id ELSE TextLess(a[column], b[column])

Ordered(rows, column, dir) ==
  \A i \in 1..(Len(rows) - 1) :
    IF dir = DESC THEN ~KeyLess(column, rows[i], rows[i + 1])
    ELSE ~KeyLess(column, rows[i + 1], rows[i])

Orderings(S) ==
  {f \in [1..Cardinality(S) -> S] : \A i, j \in 1..Cardinality(S) : f[i] = f[j] => i = j}

\* LIMIT ? OFFSET ? : a negative LIMIT is no limit, a negative OFFSET is 0
LimitOffset(rows, limit, offset) ==
  LET from == IF offset < 0 THEN 0 ELSE offset
      upto == IF limit < 0 \/ from + limit > Len(rows) THEN Len(rows) ELSE from + limit
  IN SubSeq(rows, from + 1, upto)

\* SELECT * FROM customers <whereSql> ORDER BY <field> <dir> LIMIT ? OFFSET ?
\* the results the store may give: rows with equal keys come in any order
PageSql(whereParts, params, field, dir, limit, offset) ==
  LET matching == {c \in customers : WhereHolds(whereParts, params, c, addresses)}
  IN {LimitOffset(rows, limit, offset) :
        rows \in {r \in Orderings(matching) : Ordered(r, Column(field), dir)}}

\* mutant: the offset of the page after the one asked for
OffsetOf_NextPage(page, limit) == page * limit

\* const offset = (page - 1) * limit
OffsetOf(page, limit) == (page - 1) * limit

\* GET /api/customers
GetCustomers(query) ==
  LET page == ParseIntOr(query, "page", DefaultPage)
      limit == ParseIntOr(query, "limit", DefaultLimit)
      offset == OffsetOf(page, limit)
      search == OrEmpty(query, "search")
      city == OrEmpty(query, "city")
      state == OrEmpty(query, "state")
      pin_code == OrEmpty(query, "pin_code")
      sort == IF Truthy(OrEmpty(query, "sort")) THEN query.sort ELSE DefaultSort
      whereParts == WherePartsOf(search, city, state, pin_code)
      params == ParamsOf(search, city, state, pin_code)
      order == SortOf(sort)
      total == CountSql(whereParts, params)
  IN /\ req' = Request("GET /api/customers", 0, query)
     /\ \E rows \in PageSql(whereParts, params, order.field, order.dir, limit, offset) :
          resp' = [Reply(200, "", rows)
                     EXCEPT !.meta = [page |-> page, limit |-> limit, total |-> total],
                            !.sql = [where |-> whereParts, orderBy |-> order.field,
                                     dir |-> order.dir]]
     /\ UNCHANGED store

(***************************************************************************)
(* The exchange: a request is served when the server is idle; Close is     *)
(* the response leaving, after which the next request is taken.            *)
(***************************************************************************)
Idle == req.op = "none"

Close ==
  /\ ~Idle
  /\ req' = Request("none", 0, << >>)
  /\ resp' = Reply(0, "", <<>>)
  /\ fault' = NoFault
  /\ UNCHANGED << store, pending >>

(***************************************************************************)
(* Requests the specifications draw from.                                  *)
(***************************************************************************)
Empty == << >>
T_A == << "A" >>
T_b_padded == << " ", "b", " " >>
T_X == << "X" >>
T_Y == << "Y" >>
Phone1 == << "1", "1", "1", "1", "1", "1" >>
Phone2_padded == << " ", "2", "2", "2", "2", "2", "2" >>
PhoneShort == << "1", "2", "3", "4", "5" >>
T_D == << "D" >>
Pune == << "P", "u", "n", "e" >>
Goa == << "G", "o", "a" >>
Goa_padded == << " ", "G", "o", "a" >>
MH == << "M", "H" >>
GA == << "G", "A" >>
Pin == << "4", "1", "1" >>

Restrict(b, keys) == [k \in keys \cap DOMAIN b |-> b[k]]

CustomerBodies(firsts, lasts, phones) ==
  {[first_name |-> f, last_name |-> l, phone_number |-> p] :
     f \in firsts, l \in lasts, p \in phones}

AddressBodies(details, cities, states, pins) ==
  {[address_details |-> d, city |-> c, state |-> s, pin_code |-> p] :
     d \in details, c \in cities, s \in states, p \in pins}

\* every body that carries a subset of the fields of a body of bodies
Partial(bodies, fields) == {Restrict(b, keys) : b \in bodies, keys \in SUBSET fields}

CreateBodies ==
  CustomerBodies({T_A, T_b_padded, Empty}, {T_X}, {Phone1, Phone2_padded, PhoneShort})
    \cup CustomerBodies({T_A}, {Empty}, {Phone1})
    \cup {b @@ [address |-> a] :
            b \in CustomerBodies({T_A}, {T_X}, {Phone1, Phone2_padded}),
            a \in {[address_details |-> T_D, city |-> Pune, state |-> MH,
                    pin_code |-> Pin],
                   [city |-> Goa]}}
    \cup {Empty}

UpdateBodies ==
  Partial(CustomerBodies({T_b_padded, Empty}, {T_Y},
                         {Phone1, Phone2_padded, PhoneShort}), CustomerFields)
    \cup {[nickname |-> T_A]}

AddressCreateBodies ==
  AddressBodies({T_D}, {Pune}, {MH}, {Pin, Empty}) \cup {Empty}

AddressUpdateBodies ==
  Partial(AddressBodies({T_D}, {Goa_padded, Empty}, {MH}, {Pin}), {"city", "state"})
    \cup {[city |-> Goa_padded, customer_id |-> << "2" >>]}

CustomerIds == 1..MaxCustomers
AddressIds == 1..MaxAddresses

(***************************************************************************)
(* Specification of the create / read / update / delete routes.            *)
(***************************************************************************)
\* a request taken while idle and served, within the bounds of the model
Exchange(Handler) ==
  /\ Idle
  /\ Handler
  /\ fault' = NoFault
  /\ UNCHANGED pending
  /\ custSeq' <= MaxCustomers
  /\ addrSeq' <= MaxAddresses

Next ==
  \/ \E body \in CreateBodies : Exchange(CreateCustomer(body))
  \/ \E id \in CustomerIds : Exchange(GetCustomer(id))
  \/ \E id \in CustomerIds, body \in UpdateBodies : Exchange(UpdateCustomer(id, body))
  \/ \E id \in CustomerIds : Exchange(DeleteCustomer(id))
  \/ \E id \in CustomerIds, body \in AddressCreateBodies : Exchange(AddAddress(id, body))
  \/ \E id \in CustomerIds : Exchange(GetAddresses(id))
  \/ \E id \in AddressIds, body \in AddressUpdateBodies : Exchange(UpdateAddress(id, body))
  \/ \E id \in AddressIds : Exchange(DeleteAddress(id))
  \/ Close

Spec == Init /\ [][Next]_vars

(***************************************************************************)
(* Specification of the list route: a few creates build the tables, the    *)
(* list requests range over paging, filter and sort parameters.            *)
(***************************************************************************)
\* largest customer id / address id handed out under ListSpec
ListMaxCustomers == 3
ListMaxAddresses == 2

Phone3 == << "3", "3", "3", "3", "3", "3" >>

\* three customers: two share a first name, two share a last name, and the
\* order of their ids is the order in which they were created
ListCreateBodies ==
  {[first_name |-> T_b_padded, last_name |-> T_X, phone_number |-> Phone1],
   [first_name |-> T_A, last_name |-> T_Y, phone_number |-> Phone2_padded],
   [first_name |-> T_A, last_name |-> T_X, phone_number |-> Phone3,
    address |-> [address_details |-> T_D, state |-> MH]]}

ListOwners == {1, 2}

ListAddressBodies ==
  {[address_details |-> T_D, city |-> Pune, state |-> GA, pin_code |-> Pin],
   [address_details |-> T_D, city |-> Goa, state |-> MH, pin_code |-> Pin]}

Sorts ==
  {<< "i", "d" >>,
   << "i", "d", ":", "d", "e", "s", "c" >>,
   << "f", "i", "r", "s", "t", "_", "n", "a", "m", "e" >>,
   << "f", "i", "r", "s", "t", "_", "n", "a", "m", "e", ":", "d", "e", "s", "c" >>,
   << "l", "a", "s", "t", "_", "n", "a", "m", "e", ":", "D", "E", "S", "C" >>,
   << "p", "h", "o", "n", "e", "_", "n", "u", "m", "b", "e", "r", ":", "D", "e", "S", "c" >>,
   << "p", "h", "o", "n", "e", "_", "n", "u", "m", "b", "e", "r", ":", "a", "s", "c", ":", "d", "e", "s", "c" >>,
   << "f", "o", "o", ":", "d", "e", "s", "c" >>,
   << "f", "o", "o" >>,
   << ":", "d", "e", "s", "c" >>,
   << "f", "i", "r", "s", "t", "_", "n", "a", "m", "e", ":", "d", "e", "s", "c", "e", "n", "d", "i", "n", "g" >>,
   << "F", "i", "r", "s", "t", "_", "N", "a", "m", "e", ":", "d", "e", "s", "c" >>,
   << "f", "o", "o", ":", "D", "e", "S", "c" >>}

\* every query that gives each key one of the values listed for it; Empty
\* in a list stands for the key being absent
Queries(pages, limits, sorts, searches, cities, states, pins) ==
  {[k \in {key \in DOMAIN q : q[key] # Empty} |-> q[k]] :
     q \in [page : pages, limit : limits, sort : sorts, search : searches,
            city : cities, state : states, pin_code : pins]}

PagingQueries ==
  Queries({Empty, << "2" >>, << "3" >>, << "0" >>, << "-", "1" >>, << "x" >>},
          {Empty, << "1" >>, << "2" >>, << "0" >>, << "-", "1" >>},
          {Empty, F_first_name \o << ":" >> \o << "d", "e", "s", "c" >>},
          {Empty}, {Empty, Pune}, {Empty}, {Empty})

FilterQueries ==
  Queries({Empty}, {Empty, << "1" >>}, {Empty},
          {Empty, << "a" >>, << "_", " ", "y" >>, << "2", "2" >>},
          {Empty, Pune}, {Empty, MH}, {Empty, Pin})

SortQueries ==
  Queries({Empty}, {Empty, << "2" >>}, Sorts, {Empty}, {Empty}, {Empty}, {Empty})

\* a parameter sent with an empty value: ?city=&sort=
BlankQueries == {[city |-> Empty, sort |-> Empty], [state |-> Empty, pin_code |-> Empty]}

ListQueries == PagingQueries \cup FilterQueries \cup SortQueries \cup BlankQueries

ListExchange(Handler) ==
  /\ Idle
  /\ Handler
  /\ fault' = NoFault
  /\ UNCHANGED pending
  /\ custSeq' <= ListMaxCustomers
  /\ addrSeq' <= ListMaxAddresses

ListNext ==
  \/ \E body \in ListCreateBodies : ListExchange(CreateCustomer(body))
  \/ \E id \in ListOwners, body \in ListAddressBodies : ListExchange(AddAddress(id, body))
  \/ \E query \in ListQueries : ListExchange(GetCustomers(query))
  \/ Close

ListSpec == Init /\ [][ListNext]_vars

(***************************************************************************)
(* Specification of POST /api/customers over a store whose calls may fail. *)
(***************************************************************************)
\* the three store calls of the handler, any one of which may be rejected
Faults == {NoFault, "insertCustomer", "insertAddress", "selectCreated"}

FaultCreateBodies ==
  LET plain == CustomerBodies({T_A, T_b_padded}, {T_X}, {Phone1, Phone2_padded})
  IN plain
       \cup {b @@ [address |-> a] :
               b \in plain,
               a \in {[address_details |-> T_D, city |-> Pune, state |-> MH,
                       pin_code |-> Pin],
                      [address_details |-> T_D],
                      [city |-> Goa]}}
       \cup {Empty}

\* a request taken while idle and served while the store fails as f says
FaultExchange(Handler, f) ==
  /\ Idle
  /\ Handler
  /\ fault' = f
  /\ UNCHANGED pending
  /\ custSeq' <= MaxCustomers
  /\ addrSeq' <= MaxAddresses

FaultNext ==
  \/ \E body \in FaultCreateBodies, f \in Faults :
       FaultExchange(PostCustomers(body, f), f)
  \/ \E id \in CustomerIds : FaultExchange(GetCustomer(id), NoFault)
  \/ Close

FaultSpec == Init /\ [][FaultNext]_vars

(***************************************************************************)
(* Specification of concurrent requests.  A handler runs up to its next    *)
(* await, the store runs one statement at a time, and between two          *)
(* statements of one request the statements of other requests may run.     *)
(* pending holds the requests that were received and not yet answered,     *)
(* each with the await it is suspended at.                                 *)
(***************************************************************************)
\* the number of requests that may be in flight together
MaxInFlight == 2

Slots == 1..MaxInFlight

RaceCreateBodies ==
  {[first_name |-> T_A, last_name |-> T_X, phone_number |-> Phone1],
   [first_name |-> T_A, last_name |-> T_Y, phone_number |-> Phone2_padded]}

RaceUpdateBodies ==
  {[first_name |-> T_b_padded], [phone_number |-> Phone1],
   [phone_number |-> PhoneShort], Empty}

\* a request enters the server: it takes the first slot that is free
Accept(r) ==
  /\ \E slot \in Slots : slot \notin DOMAIN pending
  /\ LET slot == CHOOSE n \in Slots :
                   n \notin DOMAIN pending /\ \A k \in 1..(n - 1) : k \in DOMAIN pending
     IN pending' = [k \in DOMAIN pending \cup {slot} |->
                      IF k = slot THEN r ELSE pending[k]]

\* the handler of a request goes on to its next await
Proceed(slot, pc) == pending' = [pending EXCEPT ![slot].pc = pc]

\* res.json(...): the request is answered and leaves the server
Respond(slot, reply) ==
  /\ req' = Request(pending[slot].op, pending[slot].id, pending[slot].body)
  /\ resp' = reply
  /\ pending' = [k \in DOMAIN pending \ {slot} |-> pending[k]]

\* the request in the slot is suspended at the await named pc
At(slot, op, pc) ==
  /\ slot \in DOMAIN pending
  /\ pending[slot].op = op
  /\ pending[slot].pc = pc

\* PUT /api/customers/:id received: validation, then the existence query
\* is sent
ReceiveUpdateCustomer(id, body) ==
  LET errors == ValidateUpdateCustomer(body)
  IN IF errors # {}
     THEN /\ \E slot \in Slots : slot \notin DOMAIN pending
          /\ req' = Request("PUT /api/customers/:id", id, body)
          /\ resp' = Invalid(errors)
          /\ UNCHANGED << store, fault, pending >>
     ELSE /\ Accept([op |-> "PUT /api/customers/:id", id |-> id, body |-> body,
                     pc |-> "existing"])
          /\ UNCHANGED << store, fault, req, resp >>

\* const existing = await getAsync(...), up to await runAsync(sql, params)
UpdateCustomerExisting(slot) ==
  LET r == pending[slot]
      updates == UpdatesOf(Sanitize(r.body, CustomerFields), CustomerFields)
  IN /\ At(slot, "PUT /api/customers/:id", "existing")
     /\ IF SelectCustomer(r.id) = {}
        THEN Respond(slot, Reply(404, "Customer not found", <<>>))
        ELSE IF DOMAIN updates = {}
        THEN Respond(slot, Reply(400, "No fields to update", <<>>))
        ELSE Proceed(slot, "update") /\ UNCHANGED << req, resp >>
     /\ UNCHANGED << store, fault >>

\* await runAsync(sql, params): the UPDATE runs, then the read-back is sent
UpdateCustomerRun(slot) ==
  LET r == pending[slot]
      updates == UpdatesOf(Sanitize(r.body, CustomerFields), CustomerFields)
      result == UpdateCustomerSql(updates, r.id)
  IN /\ At(slot, "PUT /api/customers/:id", "update")
     /\ IF result.err # ""
        THEN Respond(slot, CatchUnique(result.err)) /\ UNCHANGED customers
        ELSE /\ customers' = result.rows
             /\ Proceed(slot, "updated")
             /\ UNCHANGED << req, resp >>
     /\ UNCHANGED << addresses, custSeq, addrSeq, fault >>

\* const updated = await getAsync(...); res.json({ success: true, data: updated })
UpdateCustomerUpdated(slot) ==
  /\ At(slot, "PUT /api/customers/:id", "updated")
  /\ Respond(slot, Reply(200, "Customer updated",
                         RowData(SelectCustomer(pending[slot].id))))
  /\ UNCHANGED << store, fault >>

\* DELETE /api/customers/:id received: the existence query is sent
ReceiveDeleteCustomer(id) ==
  /\ Accept([op |-> "DELETE /api/customers/:id", id |-> id, body |-> << >>,
             pc |-> "existing"])
  /\ UNCHANGED << store, fault, req, resp >>

\* const existing = await getAsync(...), up to await runAsync(DELETE ...)
DeleteCustomerExisting(slot) ==
  /\ At(slot, "DELETE /api/customers/:id", "existing")
  /\ IF SelectCustomer(pending[slot].id) = {}
     THEN Respond(slot, Reply(404, "Customer not found", <<>>))
     ELSE Proceed(slot, "delete") /\ UNCHANGED << req, resp >>
  /\ UNCHANGED << store, fault >>

\* await runAsync(DELETE ...); res.json(...)
DeleteCustomerRun(slot) ==
  LET result == DeleteCustomerSql(pending[slot].id)
  IN /\ At(slot, "DELETE /api/customers/:id", "delete")
     /\ customers' = result.customers
     /\ addresses' = result.addresses
     /\ Respond(slot, Reply(200, "Customer deleted", <<>>))
     /\ UNCHANGED << custSeq, addrSeq, fault >>

\* a create served in one piece, to fill the table
RaceCreate(body) ==
  /\ CreateCustomer(body)
  /\ custSeq' <= MaxCustomers
  /\ UNCHANGED << fault, pending >>

RaceNext ==
  \/ \E body \in RaceCreateBodies : RaceCreate(body)
  \/ \E id \in CustomerIds, body \in RaceUpdateBodies : ReceiveUpdateCustomer(id, body)
  \/ \E slot \in Slots : UpdateCustomerExisting(slot)
  \/ \E slot \in Slots : UpdateCustomerRun(slot)
  \/ \E slot \in Slots : UpdateCustomerUpdated(slot)
  \/ \E id \in CustomerIds : ReceiveDeleteCustomer(id)
  \/ \E slot \in Slots : DeleteCustomerExisting(slot)
  \/ \E slot \in Slots : DeleteCustomerRun(slot)

RaceSpec == Init /\ [][RaceNext]_vars

(***************************************************************************)
(* Properties of the create / read / update / delete routes.               *)
(***************************************************************************)
POST_customers == "POST /api/customers"
PUT_customer == "PUT /api/customers/:id"
DELETE_customer == "DELETE /api/customers/:id"

\* C1: after DELETE /api/customers/:id answered 200, no address row has that
\* id as its customer_id.
C1_DeleteRemovesAddresses ==
  (req.op = DELETE_customer /\ resp.status = 200)
    => \A a \in addresses : a.customer_id # req.id

\* C2: in every reachable state every address row's customer_id is the id
\* of a customer that exists.
C2_AddressesHaveLiveCustomer ==
  \A a \in addresses : \E c \in customers : c.id = a.customer_id

NoSharedPhone ==
  \A c, d \in customers : c.phone_number = d.phone_number => c.id = d.id

\* the phone number of the request is the one of an existing customer other
\* than the customer the request addresses
PhoneTaken(rows, r, phone) ==
  \E c \in rows : c.phone_number = phone /\ (r.op = PUT_customer => c.id # r.id)

\* C3 as stated: every POST or PUT whose phone_number is the phone number of
\* a different existing customer is answered 409 and changes no row; no two
\* customers share a phone number.
C3_DuplicatePhoneAlways409 ==
  [][/\ (/\ Idle
         /\ req'.op \in {POST_customers, PUT_customer}
         /\ Has(req'.body, "phone_number")
         /\ PhoneTaken(customers, req', req'.body.phone_number))
        => (resp'.status = 409 /\ UNCHANGED store)
     /\ NoSharedPhone']_vars

\* the names of a request are acceptable: a POST carries both, a PUT any of
\* them, and none that is carried is blank
NamesPass(r) ==
  \A k \in {"first_name", "last_name"} :
    /\ r.op = POST_customers => Has(r.body, k)
    /\ Has(r.body, k) => \E i \in 1..Len(r.body[k]) : r.body[k][i] # " "

\* C3 as amended: a POST or PUT whose names are acceptable, that (for PUT)
\* names an existing customer, and whose phone_number is, once trimmed, the
\* phone number of a different existing customer is answered 409 and
\* changes no row; no two customers share a phone number.
C3_DuplicatePhone409 ==
  [][/\ (/\ Idle
         /\ req'.op \in {POST_customers, PUT_customer}
         /\ Has(req'.body, "phone_number")
         /\ NamesPass(req')
         /\ req'.op = PUT_customer => \E c \in customers : c.id = req'.id
         /\ PhoneTaken(customers, req', Trim(req'.body.phone_number)))
        => (resp'.status = 409 /\ UNCHANGED store)
     /\ NoSharedPhone']_vars

\* a PUT that carried a name and a taken phone number was refused whole
C3_Witness ==
  /\ req.op = PUT_customer
  /\ resp.status = 409
  /\ Has(req.body, "first_name")
  /\ \E c \in customers : c.id # req.id /\ c.phone_number = Trim(req.body.phone_number)

\* the data of a response is one customer with these three values
IsCustomer(data, first, last, phone) ==
  /\ Len(data) = 1
  /\ data[1].first_name = first
  /\ data[1].last_name = last
  /\ data[1].phone_number = phone

\* C7 as stated: a create with non-empty names and an unused phone number of
\* 6 to 20 characters is answered 201 with exactly the values sent, and a GET
\* of the returned id returns them.
C7_CreateEchoesInput ==
  [][(/\ Idle
      /\ req'.op = POST_customers
      /\ CustomerFields \subseteq DOMAIN req'.body
      /\ req'.body.first_name # <<>>
      /\ req'.body.last_name # <<>>
      /\ Len(req'.body.phone_number) >= 6
      /\ Len(req'.body.phone_number) <= 20
      /\ \A c \in customers : c.phone_number # req'.body.phone_number)
     => /\ resp'.status = 201
        /\ IsCustomer(resp'.data, req'.body.first_name, req'.body.last_name,
                      req'.body.phone_number)
        /\ \E id \in CustomerIds :
             /\ id = resp'.data[1].id
             /\ GetCustomerReply(id)'.status = 200
             /\ GetCustomerReply(id)'.data = resp'.data]_vars

\* C7 as amended: a create whose names are non-empty once trimmed and whose
\* trimmed phone number has 6 to 20 characters and is unused is answered 201
\* with the trimmed values, and a GET of the returned id returns them.
C7_CreateEchoesTrimmedInput ==
  [][(/\ Idle
      /\ req'.op = POST_customers
      /\ CustomerFields \subseteq DOMAIN req'.body
      /\ Trim(req'.body.first_name) # <<>>
      /\ Trim(req'.body.last_name) # <<>>
      /\ Len(Trim(req'.body.phone_number)) >= 6
      /\ Len(Trim(req'.body.phone_number)) <= 20
      /\ \A c \in customers : c.phone_number # Trim(req'.body.phone_number))
     => /\ resp'.status = 201
        /\ IsCustomer(resp'.data, Trim(req'.body.first_name),
                      Trim(req'.body.last_name), Trim(req'.body.phone_number))
        /\ \E id \in CustomerIds :
             /\ id = resp'.data[1].id
             /\ GetCustomerReply(id)'.status = 200
             /\ GetCustomerReply(id)'.data = resp'.data]_vars

\* a create that sent padded values was answered 201
C7_Witness ==
  /\ req.op = POST_customers
  /\ resp.status = 201
  /\ req.body.first_name # Trim(req.body.first_name)
  /\ req.body.phone_number # Trim(req.body.phone_number)

\* C8: a PUT on an existing customer whose body has none of first_name,
\* last_name, phone_number is answered 400 'No fields to update' and changes
\* no row.
C8_EmptyUpdateRejected ==
  [][(/\ Idle
      /\ req'.op = PUT_customer
      /\ SelectCustomer(req'.id) # {}
      /\ DOMAIN req'.body \cap CustomerFields = {})
     => /\ resp'.status = 400
        /\ resp'.message = "No fields to update"
        /\ UNCHANGED store]_vars

\* a PUT with a body that has other keys only was refused on a live customer
C8_Witness ==
  /\ req.op = PUT_customer
  /\ DOMAIN req.body # {}
  /\ DOMAIN req.body \cap CustomerFields = {}
  /\ SelectCustomer(req.id) # {}
  /\ resp.message = "No fields to update"

(***************************************************************************)
(* Properties of the list route.  The parameters of a request are read     *)
(* here from the query as the client sent it, not from the handler.        *)
(***************************************************************************)
GET_customers == "GET /api/customers"

Param(q, k) == IF Has(q, k) THEN q[k] ELSE <<>>

Range(rows) == {rows[i] : i \in 1..Len(rows)}

\* the customer owns an address whose column k holds exactly v
OwnsAddressWith(c, k, v) ==
  \E a \in addresses : a.customer_id = c.id /\ a[k] = v

\* the customers a query selects: the search text is matched as the store's
\* LIKE matches it, each non-empty location filter on its own
Matching(q) ==
  {c \in customers :
     /\ Param(q, "search") # <<>>
          => \/ Like(c.first_name \o << " " >> \o c.last_name,
                     << "%" >> \o q.search \o << "%" >>)
             \/ Like(c.phone_number, << "%" >> \o q.search \o << "%" >>)
     /\ \A k \in {"city", "state", "pin_code"} :
          Param(q, k) # <<>> => OwnsAddressWith(c, k, q[k])}

\* the text of sort before its first colon, and between its first and second
SortText(q) == IF Param(q, "sort") = <<>> THEN DefaultSort ELSE q.sort

UpTo(s, ch) == IF IndexOf(ch, s) = 0 THEN s ELSE SubSeq(s, 1, IndexOf(ch, s) - 1)

After(s, ch) == IF IndexOf(ch, s) = 0 THEN <<>> ELSE SubSeq(s, IndexOf(ch, s) + 1, Len(s))

FieldPart(q) == UpTo(SortText(q), ":")

DirectionPart(q) == UpTo(After(SortText(q), ":"), ":")

SameIgnoringCase(a, b) ==
  /\ Len(a) = Len(b)
  /\ \A i \in 1..Len(a) : ToUpperChar(a[i]) = ToUpperChar(b[i])

AsksDescending(q) == SameIgnoringCase(DirectionPart(q), << "d", "e", "s", "c" >>)

SortableFields == {F_id, F_first_name, F_last_name, F_phone_number}

AscendingById(rows) == \A i, j \in 1..Len(rows) : i < j => rows[i].id < rows[j].id

DescendingById(rows) == \A i, j \in 1..Len(rows) : i < j => rows[i].id > rows[j].id

\* C4: for every list request meta.total is the number of customers matching
\* the filters, and data has at most meta.limit rows.
C4_TotalAndPageSize ==
  req.op = GET_customers
    => /\ resp.meta.total = Cardinality(Matching(req.body))
       /\ Len(resp.data) <= resp.meta.limit

\* C5 as stated: when the sort field is not one of the four sortable fields,
\* the rows come in ascending id order, whatever the direction part.
C5_UnknownFieldAscendingId ==
  (req.op = GET_customers /\ FieldPart(req.body) \notin SortableFields)
    => AscendingById(resp.data)

\* C5 as amended: when the sort field is not one of the four sortable fields,
\* the rows come ordered by id: descending when the direction part is desc
\* in any letter case, ascending otherwise.
C5_UnknownFieldOrdersById ==
  (req.op = GET_customers /\ FieldPart(req.body) \notin SortableFields)
    => IF AsksDescending(req.body)
       THEN DescendingById(resp.data)
       ELSE AscendingById(resp.data)

\* an unknown field with a direction of desc returned several rows
C5_Witness ==
  /\ req.op = GET_customers
  /\ FieldPart(req.body) = << "f", "o", "o" >>
  /\ AsksDescending(req.body)
  /\ Len(resp.data) >= 2

C9_LocationFilters ==
  (req.op = GET_customers /\ Param(req.body, "search") = <<>>)
    => /\ Range(resp.data) \subseteq Matching(req.body)
       /\ resp.meta.total = Cardinality(Matching(req.body))
       /\ (resp.meta.page = 1 /\ resp.meta.limit >= resp.meta.total)
            => Range(resp.data) = Matching(req.body)

\* a customer was returned for a city and a state that no single address of
\* it has together
C9_Witness ==
  /\ req.op = GET_customers
  /\ Param(req.body, "city") # <<>>
  /\ Param(req.body, "state") # <<>>
  /\ \E c \in Range(resp.data) :
       \A a \in addresses :
         a.customer_id = c.id => (a.city # req.body.city \/ a.state # req.body.state)

\* rows is in the order the request asks for
InRequestedOrder(rows, q) ==
  LET column == IF FieldPart(q) \in SortableFields THEN Column(FieldPart(q)) ELSE "id"
  IN \A i \in 1..(Len(rows) - 1) :
       IF AsksDescending(q)
       THEN ~KeyLess(column, rows[i], rows[i + 1])
       ELSE ~KeyLess(column, rows[i + 1], rows[i])

Min(a, b) == IF a < b THEN a ELSE b

\* C10: with positive page and limit, the rows are the entries at positions
\* (page-1)*limit+1 .. page*limit of the matching customers in the requested
\* order, fewer when the set ends earlier; a page past the end is answered
\* 200 with no row and total still the full count.
C10_PageIsSliceOfSortedMatches ==
  (req.op = GET_customers /\ resp.meta.page > 0 /\ resp.meta.limit > 0)
    => LET page == resp.meta.page
           limit == resp.meta.limit
           n == Cardinality(Matching(req.body))
       IN /\ resp.status = 200
          /\ resp.meta.total = n
          /\ (page - 1) * limit >= n => resp.data = <<>>
          /\ \E all \in Orderings(Matching(req.body)) :
               /\ InRequestedOrder(all, req.body)
               /\ resp.data = SubSeq(all, (page - 1) * limit + 1, Min(page * limit, n))

\* a page in the middle: rows before it and rows after it
C10_Witness ==
  /\ req.op = GET_customers
  /\ resp.meta.page >= 2
  /\ resp.meta.limit >= 1
  /\ Len(resp.data) >= 1
  /\ resp.meta.total > resp.meta.page * resp.meta.limit

(***************************************************************************)
(* Properties of the routes on ids that are not in the store.              *)
(***************************************************************************)
GET_customer == "GET /api/customers/:id"
POST_addresses == "POST /api/customers/:id/addresses"
GET_addresses == "GET /api/customers/:id/addresses"
PUT_address == "PUT /api/addresses/:addressId"
DELETE_address == "DELETE /api/addresses/:addressId"

\* the request names a customer or an address that the store does not hold
NamesMissingRow(r) ==
  \/ /\ r.op \in {GET_customer, PUT_customer, DELETE_customer, POST_addresses,
                   GET_addresses}
     /\ \A c \in customers : c.id # r.id
  \/ /\ r.op \in {PUT_address, DELETE_address}
     /\ \A a \in addresses : a.id # r.id

NonBlank(t) == \E i \in 1..Len(t) : t[i] # " "

\* the body of the request is one the validation of its route accepts
BodyPasses(r) ==
  /\ r.op = PUT_customer =>
       /\ NamesPass(r)
       /\ Has(r.body, "phone_number") =>
            /\ Len(Trim(r.body.phone_number)) >= 6
            /\ Len(Trim(r.body.phone_number)) <= 20
  /\ r.op = POST_addresses =>
       \A k \in AddressFields : Has(r.body, k) /\ NonBlank(r.body[k])
  /\ r.op = PUT_address =>
       \A k \in AddressFields : Has(r.body, k) => NonBlank(r.body[k])

\* C12 as stated: every operation on a customer id or an address id that is
\* not in the store is answered 404, whatever its body, and changes no row.
C12_MissingIdAlways404 ==
  [][(Idle /\ NamesMissingRow(req'))
     => (resp'.status = 404 /\ UNCHANGED store)]_vars

\* C12 as amended: every operation on a customer id or an address id that
\* is not in the store, and whose body passes the validation of its route,
\* is answered 404 and changes no row.
C12_MissingId404 ==
  [][(Idle /\ NamesMissingRow(req') /\ BodyPasses(req'))
     => (resp'.status = 404 /\ UNCHANGED store)]_vars

\* an update of an address id that was deleted was answered 404 while
\* another address is in the store
C12_Witness ==
  /\ req.op = PUT_address
  /\ DOMAIN req.body # {}
  /\ resp.status = 404
  /\ req.id <= addrSeq
  /\ addresses # {}

(***************************************************************************)
(* Frame of the two update routes.                                         *)
(***************************************************************************)
AsSent(v) == v

\* the rows after the step are the rows before it, except that the row with
\* the id of the request has, in each of fields that the body carries, the
\* value Stored makes of the value sent; every other column of that row
\* (its id, a customer_id) and every other row are as before
OnlySentFieldsChange(r, fields, before, after, Stored(_)) ==
  \E c \in before, d \in after :
    /\ c.id = r.id
    /\ after = (before \ {c}) \cup {d}
    /\ DOMAIN d = DOMAIN c
    /\ \A k \in DOMAIN c :
         d[k] = IF k \in fields /\ Has(r.body, k) THEN Stored(r.body[k]) ELSE c[k]

\* C14 as stated: a PUT /api/customers/:id answered 200 sets the fields of
\* first_name, last_name, phone_number that the body carries to the values
\* sent and changes nothing else in the store; a PUT /api/addresses/:addressId
\* answered 200 does the same on the four fields of that address and never
\* changes its customer_id.
C14_UpdateStoresSentValues ==
  [][/\ (Idle /\ req'.op = PUT_customer /\ resp'.status = 200)
        => /\ OnlySentFieldsChange(req', CustomerFields, customers, customers', AsSent)
           /\ UNCHANGED << addresses, custSeq, addrSeq >>
     /\ (Idle /\ req'.op = PUT_address /\ resp'.status = 200)
        => /\ OnlySentFieldsChange(req', AddressFields, addresses, addresses', AsSent)
           /\ UNCHANGED << customers, custSeq, addrSeq >>]_vars

\* C14 as amended: the same, the value stored for a field being the value
\* sent with the surrounding whitespace removed.
C14_UpdateStoresTrimmedValues ==
  [][/\ (Idle /\ req'.op = PUT_customer /\ resp'.status = 200)
        => /\ OnlySentFieldsChange(req', CustomerFields, customers, customers', Trim)
           /\ UNCHANGED << addresses, custSeq, addrSeq >>
     /\ (Idle /\ req'.op = PUT_address /\ resp'.status = 200)
        => /\ OnlySentFieldsChange(req', AddressFields, addresses, addresses', Trim)
           /\ UNCHANGED << customers, custSeq, addrSeq >>]_vars

\* an address update that sent one padded field was answered 200 while the
\* store holds another address and a customer
C14_Witness ==
  /\ req.op = PUT_address
  /\ resp.status = 200
  /\ DOMAIN req.body = {"city"}
  /\ req.body.city # Trim(req.body.city)
  /\ \E a, b \in addresses :
       /\ a.id = req.id
       /\ b.id # a.id
       /\ a.city = Trim(req.body.city)
       /\ b.city # a.city
  /\ customers # {}

(***************************************************************************)
(* Properties of concurrent requests.                                      *)
(***************************************************************************)
\* C13: under every interleaving of requests, a PUT /api/customers/:id that
\* is answered 200 carries in data a customer record with the id of the
\* request.
C13_UpdateAnswersWithRecord ==
  (req.op = PUT_customer /\ resp.status = 200)
    => (Len(resp.data) = 1 /\ resp.data[1].id = req.id)

(***************************************************************************)
(* Properties of POST /api/customers over a failing store.                 *)
(***************************************************************************)
\* the body carries an inline address the handler inserts
WithInlineAddress(body) ==
  /\ Has(body, "address")
  /\ Has(body.address, "address_details")
  /\ body.address.address_details # <<>>

\* the body passes validation and its phone number is free, so that the
\* customer insert succeeds
CustomerInsertable(r) ==
  /\ CustomerFields \subseteq DOMAIN r.body
  /\ NamesPass(r)
  /\ Len(Trim(r.body.phone_number)) >= 6
  /\ Len(Trim(r.body.phone_number)) <= 20
  /\ ~PhoneTaken(customers, r, Trim(r.body.phone_number))

\* C11: when POST /api/customers carries an inline address and the address
\* insert fails after the customer insert succeeded, the answer is 500, the
\* new customer row is in the store and no address row was added for it.
C11_PartialCreateKept ==
  [][(/\ Idle
      /\ req'.op = POST_customers
      /\ fault' = "insertAddress"
      /\ WithInlineAddress(req'.body)
      /\ CustomerInsertable(req'))
     => /\ resp'.status = 500
        /\ addresses' = addresses
        /\ \E c \in customers' :
             /\ customers' = customers \cup {c}
             /\ \A d \in customers : d.id < c.id
             /\ c.phone_number = Trim(req'.body.phone_number)
             /\ \A a \in addresses' : a.customer_id # c.id]_vars

\* a create with an inline address was answered 500 and left its customer
\* without an address
C11_Witness ==
  /\ req.op = POST_customers
  /\ fault = "insertAddress"
  /\ WithInlineAddress(req.body)
  /\ resp.status = 500
  /\ \E c \in customers :
       /\ c.phone_number = Trim(req.body.phone_number)
       /\ SelectAddressesOf(c.id) = {}

====
